---- MODULE Spec2Model ----
(***************************************************************************)
(* bun-ws-gameserver: the room registry, the Room, the per-client rate     *)
(* limiter and the session dispatcher, in its two modes.                   *)
(*                                                                         *)
(*   authoritative mode : src/unnamed/part_000 (dispatcher) + src/src/room.ts *)
(*   relay mode         : src/src/index.ts (dispatcher); its Room          *)
(*                        (join/leave/relay with welcome, peer_joined,     *)
(*                        peer_left) and the RateLimiter and decodeMessage *)
(*                        of both modes are not in the source tree and are *)
(*                        modelled from the specification.                 *)
(*                                                                         *)
(* One event (upgrade+open, inbound frame, close, timer fire, limiter      *)
(* sweep) is one action: the event loop runs each handler to completion.   *)
(***************************************************************************)
EXTENDS Integers, Sequences, FiniteSets, TLC

\* ---------------------------------------------------------------- bounds
MaxClients == 2          \* connections accepted over one run (ids 1..MaxClients)
MaxExcess == 1           \* SpecRL: calls a client makes beyond its ceiling in one window
MaxCeiling == 2          \* SpecRL: largest ceiling the limiter is constructed with

\* ------------------------------------------------------------- constants
MAX_PLAYERS_PER_ROOM == 2        \* process.env.MAX_PLAYERS_PER_ROOM: largest capacity a run is configured with
MAX_MESSAGES_PER_SECOND == 1     \* process.env.MAX_MESSAGES_PER_SECOND: the limiter ceiling of a run
WINDOW_MS == 1000                \* limiter window
CLEANUP_INTERVAL_MS == 10000     \* period of the limiter sweep
CLEANUP_FACTOR == 2              \* sweep purges windows older than CLEANUP_FACTOR * WINDOW_MS
NAME_MAX == 32                   \* displayName.slice(0, 32)
CHAT_MAX == 500                  \* message.slice(0, 500)

Capacities == 1 .. MAX_PLAYERS_PER_ROOM

Clients == 1 .. MaxClients
RoomIds == {"lobby", "r1"}
None == 0                        \* no client id (undefined excludeId)

VARIABLES
    mode,      \* "authoritative" | "relay" | "limiter": which build runs
    capacity,  \* the configured MAX_PLAYERS_PER_ROOM of this run
    conn,      \* per connection: ws.data plus the transport's view of the socket
    nextId,    \* next fresh client id (crypto.randomUUID never repeats)
    rooms,     \* const rooms = new Map<string, Room>()
    orphans,   \* live timers owned by Room objects already deleted from the registry
    limiter,   \* const rateLimiter = new RateLimiter(MAX_MESSAGES_PER_SECOND)
    sent,      \* envelopes handed to the transport by the last event, in order
    last,      \* the last event processed and the path it took
    latest,    \* per client, the state of its most recently accepted `state` frame
    rejected   \* the connections, not yet closed, that had a join rejected with ROOM_FULL

vars == <<mode, capacity, conn, nextId, rooms, orphans, limiter, sent, last, latest, rejected>>

\* ------------------------------------------------------------ strings
\* A string is the text it was cut from and the number of characters kept.
Min(a, b) == IF a <= b THEN a ELSE b

Str(t, n) == [txt |-> t, len |-> n]

Slice(s, k) == [txt |-> s.txt, len |-> Min(s.len, k)]

EmptyStr == Str("", 0)

Anonymous == Str("Anonymous", 9)

\* ------------------------------------------------------------ envelopes
Send(to, env) == [to |-> to, env |-> env]

ErrorEnv(code) == [type |-> "error", code |-> code]

\* ------------------------------------------------------------ transport
IdleConn == [status |-> "idle", roomId |-> "lobby", joined |-> FALSE, topics |-> {}, closeCode |-> 0]

ClosedConn == [IdleConn EXCEPT !.status = "closed"]

Topic(roomId) == <<"room", roomId>>

Subscribe(cn, id, topic) == [cn EXCEPT ![id].topics = @ \cup {topic}]

Unsubscribe(cn, id, topic) == [cn EXCEPT ![id].topics = @ \ {topic}]

\* ws.close(code, reason) called by the server: the socket stops receiving and its
\* close handler runs as a later event.
ServerClose(cn, id, code) ==
    IF cn[id].status = "open"
    THEN [cn EXCEPT ![id].status = "closing", ![id].closeCode = code]
    ELSE cn

RECURSIVE SeqOfSet(_)
SeqOfSet(S) ==
    IF S = {} THEN <<>>
    ELSE LET m == CHOOSE x \in S : \A y \in S : x <= y
         IN <<m>> \o SeqOfSet(S \ {m})

\* ServerWebSocket.publish(topic, data) called on socket `from`: Bun delivers to
\* every socket subscribed to the topic except the publishing socket itself.
Publish(cn, from, topic, env) ==
    LET subs == {c \in Clients : cn[c].status = "open" /\ topic \in cn[c].topics /\ c # from}
        order == SeqOfSet(subs)
    IN [i \in 1 .. Len(order) |-> Send(order[i], env)]

\* ------------------------------------------------------------ rate limiter
NewLimiter(maxPerSecond) == [maxPerSecond |-> maxPerSecond, windows |-> <<>>]

Put(f, k, v) == [x \in DOMAIN f \cup {k} |-> IF x = k THEN v ELSE f[x]]

Drop(f, k) == [x \in DOMAIN f \ {k} |-> f[x]]

\* Variant of allow: the counter is compared with < instead of <=.
AllowOffByOne(lim, id) ==
    LET fresh == id \notin DOMAIN lim.windows \/ lim.windows[id].age > WINDOW_MS
        w0 == IF fresh THEN [count |-> 0, age |-> 0] ELSE lim.windows[id]
        w1 == [w0 EXCEPT !.count = @ + 1]
    IN [ok |-> w1.count < lim.maxPerSecond,
        lim |-> [lim EXCEPT !.windows = Put(@, id, w1)]]

\* allow(clientId): age is Date.now() - windowStart of the client's window.
Allow(lim, id) ==
    LET fresh == id \notin DOMAIN lim.windows \/ lim.windows[id].age > WINDOW_MS
        w0 == IF fresh THEN [count |-> 0, age |-> 0] ELSE lim.windows[id]
        w1 == [w0 EXCEPT !.count = @ + 1]
    IN [ok |-> w1.count <= lim.maxPerSecond,
        lim |-> [lim EXCEPT !.windows = Put(@, id, w1)]]

LimiterRemove(lim, id) == [lim EXCEPT !.windows = Drop(@, id)]

StaleAge == CLEANUP_FACTOR * WINDOW_MS

LimiterCleanup(lim) ==
    [lim EXCEPT !.windows = [x \in {k \in DOMAIN @ : @[k].age <= StaleAge} |-> @[x]]]

\* The clock moves on by d ms; an age past the sweep threshold is kept as
\* StaleAge + 1 (every larger age behaves the same).
LimiterAge(lim, d) ==
    [lim EXCEPT !.windows = [x \in DOMAIN @ |-> [@[x] EXCEPT !.age = Min(@ + d, StaleAge + 1)]]]

\* SpecRL: a client calls while its window's count would stay within ceiling + MaxExcess.
ExcessOK(lim, id) == Allow(lim, id).lim.windows[id].count <= lim.maxPerSecond + MaxExcess

\* A client that was refused in its current window sends nothing more before the sweep.
BacksOff(lim, id) == id \in DOMAIN lim.windows /\ lim.windows[id].count > lim.maxPerSecond

\* ------------------------------------------------------------ Room (room.ts)
DefaultState == [position |-> <<0, 0, 0>>, rotation |-> <<0, 0, 0, 1>>, action |-> "idle", stamped |-> FALSE]

\* { ...state, timestamp: Date.now() }: the payload with a server timestamp.
Stamped(state) ==
    [position |-> state.position, rotation |-> state.rotation, action |-> state.action, stamped |-> TRUE]

NewRoom(id, maxPlayers) ==
    [id |-> id, players |-> <<>>, tickInterval |-> FALSE, timers |-> 0, maxPlayers |-> maxPlayers]

playerCount(room) == Len(room.players)

\* Variant of isFull: the comparison is > instead of >=.
isFullOffByOne(room) == Len(room.players) > room.maxPlayers

isFull(room) == Len(room.players) >= room.maxPlayers

isRunning(room) == room.tickInterval

PlayerIds(room) == {room.players[i].id : i \in 1 .. Len(room.players)}

hasPlayer(room, id) == id \in PlayerIds(room)

GetPlayer(room, id) == room.players[CHOOSE i \in 1 .. Len(room.players) : room.players[i].id = id]

\* Map.set: a new key goes last, an existing key keeps its place.
MapSet(players, p) ==
    IF \E i \in 1 .. Len(players) : players[i].id = p.id
    THEN [i \in 1 .. Len(players) |-> IF players[i].id = p.id THEN p ELSE players[i]]
    ELSE Append(players, p)

MapDelete(players, id) == SelectSeq(players, LAMBDA p : p.id # id)

\* Variant of startTickLoop: setInterval is called but its handle is not kept.
startTickLoopForgets(room) == [room EXCEPT !.timers = @ + 1]

\* setInterval: one more live timer of this Room object, remembered in tickInterval.
startTickLoop(room) == [room EXCEPT !.tickInterval = TRUE, !.timers = @ + 1]

\* Variant of stopTickLoop: the handle is set to null without clearInterval.
stopTickLoopNoClear(room) == [room EXCEPT !.tickInterval = FALSE]

\* clearInterval(this.tickInterval) clears the remembered timer only.
stopTickLoop(room) ==
    IF room.tickInterval
    THEN [room EXCEPT !.tickInterval = FALSE, !.timers = @ - 1]
    ELSE room

\* Variant of publishToRoom: the excluded id is not skipped in the send loop.
publishToRoomNoExclude(room, cn, env, excludeId) ==
    IF excludeId # None
    THEN [i \in 1 .. Len(room.players) |-> Send(room.players[i].id, env)]
    ELSE IF Len(room.players) > 0
         THEN Publish(cn, room.players[1].id, Topic(room.id), env)
         ELSE <<>>

publishToRoom(room, cn, env, excludeId) ==
    IF excludeId # None
    THEN LET others == SelectSeq(room.players, LAMBDA p : p.id # excludeId)
         IN [i \in 1 .. Len(others) |-> Send(others[i].id, env)]
    ELSE IF Len(room.players) > 0
         THEN Publish(cn, room.players[1].id, Topic(room.id), env)
         ELSE <<>>

join(room, cn, id, displayName) ==
    IF isFull(room)
    THEN [ok |-> FALSE, room |-> room, conn |-> cn, sent |-> <<Send(id, ErrorEnv("ROOM_FULL"))>>]
    ELSE LET player == [id |-> id, displayName |-> displayName, state |-> DefaultState]
             r1 == [room EXCEPT !.players = MapSet(@, player)]
             joinMsg == [type |-> "player_joined", id |-> id, displayName |-> displayName]
             out == publishToRoom(r1, cn, joinMsg, id)
             cn1 == Subscribe(cn, id, Topic(room.id))
             r2 == IF Len(r1.players) = 1 /\ ~r1.tickInterval THEN startTickLoop(r1) ELSE r1
         IN [ok |-> TRUE, room |-> r2, conn |-> cn1, sent |-> out]

\* Variant of leave: the tick loop is not stopped when the room empties.
leaveKeepsTimer(room, cn, id) ==
    IF ~hasPlayer(room, id)
    THEN [room |-> room, conn |-> cn, sent |-> <<>>]
    ELSE LET r1 == [room EXCEPT !.players = MapDelete(@, id)]
             cn1 == Unsubscribe(cn, id, Topic(room.id))
             out == publishToRoom(r1, cn1, [type |-> "player_left", id |-> id], None)
         IN [room |-> r1, conn |-> cn1, sent |-> out]

leave(room, cn, id) ==
    IF ~hasPlayer(room, id)
    THEN [room |-> room, conn |-> cn, sent |-> <<>>]
    ELSE LET r1 == [room EXCEPT !.players = MapDelete(@, id)]
             cn1 == Unsubscribe(cn, id, Topic(room.id))
             out == publishToRoom(r1, cn1, [type |-> "player_left", id |-> id], None)
             r2 == IF Len(r1.players) = 0 THEN stopTickLoop(r1) ELSE r1
         IN [room |-> r2, conn |-> cn1, sent |-> out]

\* Variant of updatePlayerState: the state is written to every player of the room.
updatePlayerStateAll(room, id, state) ==
    IF ~hasPlayer(room, id) THEN room
    ELSE [room EXCEPT !.players =
            [i \in 1 .. Len(@) |-> [@[i] EXCEPT !.state = Stamped(state)]]]

\* Variant of updatePlayerState: a state once reported is never overwritten.
updatePlayerStateFirstOnly(room, id, state) ==
    IF ~hasPlayer(room, id) \/ GetPlayer(room, id).state.stamped THEN room
    ELSE [room EXCEPT !.players =
            MapSet(@, [GetPlayer(room, id) EXCEPT !.state = Stamped(state)])]

updatePlayerState(room, id, state) ==
    IF ~hasPlayer(room, id) THEN room
    ELSE [room EXCEPT !.players =
            MapSet(@, [GetPlayer(room, id) EXCEPT !.state = Stamped(state)])]

chat(room, cn, id, message) ==
    IF ~hasPlayer(room, id) THEN <<>>
    ELSE publishToRoom(room, cn, [type |-> "chat", id |-> id, message |-> Slice(message, CHAT_MAX)], None)

Snapshot(room) ==
    [type |-> "snapshot",
     players |-> [id \in PlayerIds(room) |->
                    [state |-> GetPlayer(room, id).state,
                     displayName |-> GetPlayer(room, id).displayName]]]

tick(room, cn) ==
    IF Len(room.players) = 0 THEN <<>>
    ELSE publishToRoom(room, cn, Snapshot(room), None)

RECURSIVE CloseAll(_, _, _)
CloseAll(cn, ids, code) ==
    IF ids = {} THEN cn
    ELSE LET c == CHOOSE x \in ids : TRUE
         IN CloseAll(ServerClose(cn, c, code), ids \ {c}, code)

destroy(room, cn) ==
    LET r1 == stopTickLoop(room)
    IN [room |-> [r1 EXCEPT !.players = <<>>],
        conn |-> CloseAll(cn, PlayerIds(r1), 1001)]

\* ------------------------------------------------------------ Room of the relay build
\* "Broadcast to room" delivers to every current member's connection.
relayBroadcast(room, env, excludeId) ==
    LET to == SelectSeq(room.players, LAMBDA p : p.id # excludeId)
    IN [i \in 1 .. Len(to) |-> Send(to[i].id, env)]

relayJoin(room, cn, id) ==
    IF isFull(room)
    THEN [ok |-> FALSE, room |-> room, conn |-> cn, sent |-> <<Send(id, ErrorEnv("ROOM_FULL"))>>]
    ELSE LET peers == [i \in 1 .. Len(room.players) |-> room.players[i].id]
             r1 == [room EXCEPT !.players = MapSet(@, [id |-> id])]
             welcome == [type |-> "welcome", playerId |-> id, peers |-> peers]
             out == <<Send(id, welcome)>> \o relayBroadcast(r1, [type |-> "peer_joined", peerId |-> id], id)
         IN [ok |-> TRUE, room |-> r1, conn |-> Subscribe(cn, id, Topic(room.id)), sent |-> out]

relayLeave(room, cn, id) ==
    IF ~hasPlayer(room, id)
    THEN [room |-> room, conn |-> cn, sent |-> <<>>]
    ELSE LET r1 == [room EXCEPT !.players = MapDelete(@, id)]
         IN [room |-> r1, conn |-> Unsubscribe(cn, id, Topic(room.id)),
             sent |-> relayBroadcast(r1, [type |-> "peer_left", peerId |-> id], None)]

relay(room, fromId, payload) ==
    relayBroadcast(room, [type |-> "relay", from |-> fromId, data |-> payload], fromId)

\* ------------------------------------------------------------ registry
getOrCreateRoom(reg, roomId, maxPlayers) ==
    IF roomId \in DOMAIN reg THEN reg ELSE Put(reg, roomId, NewRoom(roomId, maxPlayers))

\* ------------------------------------------------------------ frames
\* The payloads of a client's `state` frames: every client reports one state, the
\* first client also a second one.
StatePayloads(c) ==
    { [position |-> <<1, 0, 0>>, rotation |-> <<0, 0, 0, 1>>, action |-> "run"] }
    \cup (IF c = 1
          THEN { [position |-> <<0, 2, 0>>, rotation |-> <<0, 1, 0, 0>>, action |-> "idle"] }
          ELSE {})

\* The displayName a client puts in its join frames: none, or one over the limit.
NameOf(c) == IF c % 2 = 1 THEN EmptyStr ELSE Str("L", NAME_MAX + 1)

\* The text of a client's chat frames: a short one, or one over the limit.
ChatText(c) == IF c % 2 = 1 THEN Str("hi", 2) ELSE Str("T", CHAT_MAX + 1)

Garbage == [wf |-> FALSE, msg |-> [type |-> "?"]]

Frame(msg) == [wf |-> TRUE, msg |-> msg]

AuthFrames(c) ==
    {Garbage}
    \cup {Frame([type |-> "join", displayName |-> NameOf(c)])}
    \cup {Frame([type |-> "state", payload |-> s]) : s \in StatePayloads(c)}
    \cup {Frame([type |-> "chat", message |-> ChatText(c)])}

\* A decoded field value with its JavaScript typeof.
Val(t, v) == [typeof |-> t, v |-> v]

RelayFrames ==
    { Garbage,
      Frame([type |-> "ping", nonce |-> Val("string", "n1")]),
      Frame([type |-> "ping", nonce |-> Val("number", "7")]),
      Frame([type |-> "position", x |-> 1]) }

Null == [type |-> "null"]

decodeMessage(frame) == IF frame.wf THEN frame.msg ELSE Null

\* ------------------------------------------------------------ dispatcher (authoritative)
\* What a handler leaves behind: the registry, the sockets, the envelopes sent and
\* the path taken.
Outcome(reg, cn, out, path) == [rooms |-> reg, conn |-> cn, sent |-> out, path |-> path]

\* Variant of case 'join': the `if (ws.data.joined) break` is missing.
caseJoinNoGuard(reg, cn, c, roomId, decoded) ==
    LET nm == IF decoded.displayName.len = 0 THEN Anonymous ELSE decoded.displayName
        j == join(reg[roomId], cn, c, Slice(nm, NAME_MAX))
    IN Outcome([reg EXCEPT ![roomId] = j.room],
               IF j.ok THEN [j.conn EXCEPT ![c].joined = TRUE] ELSE j.conn,
               j.sent,
               IF j.ok THEN "join_ok" ELSE "join_full")

\* Variant of case 'join': ws.data.joined is set without testing `success`.
caseJoinFlagsAlways(reg, cn, c, roomId, decoded) ==
    IF cn[c].joined
    THEN Outcome(reg, cn, <<>>, "join_ignored")
    ELSE LET nm == IF decoded.displayName.len = 0 THEN Anonymous ELSE decoded.displayName
             j == join(reg[roomId], cn, c, Slice(nm, NAME_MAX))
         IN Outcome([reg EXCEPT ![roomId] = j.room],
                    [j.conn EXCEPT ![c].joined = TRUE],
                    j.sent,
                    IF j.ok THEN "join_ok" ELSE "join_full")

\* Variant of case 'join': a join that fails closes the socket, as open(ws) of the
\* relay build does.
caseJoinCloseFull(reg, cn, c, roomId, decoded) ==
    IF cn[c].joined
    THEN Outcome(reg, cn, <<>>, "join_ignored")
    ELSE LET nm == IF decoded.displayName.len = 0 THEN Anonymous ELSE decoded.displayName
             j == join(reg[roomId], cn, c, Slice(nm, NAME_MAX))
         IN Outcome([reg EXCEPT ![roomId] = j.room],
                    IF j.ok THEN [j.conn EXCEPT ![c].joined = TRUE] ELSE ServerClose(j.conn, c, 1013),
                    j.sent,
                    IF j.ok THEN "join_ok" ELSE "join_full")

\* case 'join'
caseJoin(reg, cn, c, roomId, decoded) ==
    IF cn[c].joined
    THEN Outcome(reg, cn, <<>>, "join_ignored")
    ELSE LET nm == IF decoded.displayName.len = 0 THEN Anonymous ELSE decoded.displayName
             j == join(reg[roomId], cn, c, Slice(nm, NAME_MAX))
         IN Outcome([reg EXCEPT ![roomId] = j.room],
                    IF j.ok THEN [j.conn EXCEPT ![c].joined = TRUE] ELSE j.conn,
                    j.sent,
                    IF j.ok THEN "join_ok" ELSE "join_full")

\* Variant of case 'state': the joined check is missing.
caseStateNoGuard(reg, cn, c, roomId, decoded) ==
    Outcome([reg EXCEPT ![roomId] = updatePlayerState(@, c, decoded.payload)], cn, <<>>, "state")

\* case 'state'
caseState(reg, cn, c, roomId, decoded) ==
    IF ~cn[c].joined
    THEN Outcome(reg, cn, <<Send(c, ErrorEnv("NOT_JOINED"))>>, "not_joined")
    ELSE Outcome([reg EXCEPT ![roomId] = updatePlayerState(@, c, decoded.payload)], cn, <<>>, "state")

\* case 'chat'
caseChat(reg, cn, c, roomId, decoded) ==
    IF ~cn[c].joined
    THEN Outcome(reg, cn, <<>>, "chat_dropped")
    ELSE Outcome(reg, cn, chat(reg[roomId], cn, c, decoded.message), "chat")

\* Variant of the dispatch: the room is always the default room, whatever
\* ws.data.roomId says.
authDispatchLobby(reg0, cn, cap, c, roomId, decoded) ==
    LET reg == getOrCreateRoom(reg0, "lobby", cap)
    IN IF decoded.type = "join" THEN caseJoin(reg, cn, c, "lobby", decoded)
       ELSE IF decoded.type = "state" THEN caseState(reg, cn, c, "lobby", decoded)
       ELSE IF decoded.type = "chat" THEN caseChat(reg, cn, c, "lobby", decoded)
       ELSE Outcome(reg, cn, <<>>, "ignored")

\* const room = getOrCreateRoom(roomId); switch (decoded.type) { ... }
authDispatch(reg0, cn, cap, c, roomId, decoded) ==
    LET reg == getOrCreateRoom(reg0, roomId, cap)
    IN IF decoded.type = "join" THEN caseJoin(reg, cn, c, roomId, decoded)
       ELSE IF decoded.type = "state" THEN caseState(reg, cn, c, roomId, decoded)
       ELSE IF decoded.type = "chat" THEN caseChat(reg, cn, c, roomId, decoded)
       ELSE Outcome(reg, cn, <<>>, "ignored")

\* Variant of websocket.message: an undecodable frame also closes the socket.
authMessageCloseInvalid(reg, cn, cap, allowed, c, f) ==
    IF ~allowed
    THEN Outcome(reg, cn, <<Send(c, ErrorEnv("RATE_LIMITED"))>>, "rate_limited")
    ELSE IF decodeMessage(f) = Null
    THEN Outcome(reg, ServerClose(cn, c, 1008), <<Send(c, ErrorEnv("INVALID_MESSAGE"))>>, "invalid")
    ELSE authDispatch(reg, cn, cap, c, cn[c].roomId, decodeMessage(f))

\* Variant of websocket.message: the return after the RATE_LIMITED error is missing.
authMessageNoReturn(reg, cn, cap, allowed, c, f) ==
    LET rest == IF decodeMessage(f) = Null
                THEN Outcome(reg, cn, <<Send(c, ErrorEnv("INVALID_MESSAGE"))>>, "invalid")
                ELSE authDispatch(reg, cn, cap, c, cn[c].roomId, decodeMessage(f))
    IN IF ~allowed
       THEN Outcome(rest.rooms, rest.conn, <<Send(c, ErrorEnv("RATE_LIMITED"))>> \o rest.sent, "rate_limited")
       ELSE rest

\* Variant of websocket.message: getOrCreateRoom(roomId) runs before the frame is
\* decoded, so an undecodable frame registers the room.
authMessageRoomFirst(reg, cn, cap, allowed, c, f) ==
    IF ~allowed
    THEN Outcome(reg, cn, <<Send(c, ErrorEnv("RATE_LIMITED"))>>, "rate_limited")
    ELSE IF decodeMessage(f) = Null
    THEN Outcome(getOrCreateRoom(reg, cn[c].roomId, cap), cn,
                 <<Send(c, ErrorEnv("INVALID_MESSAGE"))>>, "invalid")
    ELSE authDispatch(reg, cn, cap, c, cn[c].roomId, decodeMessage(f))

\* websocket.message of the authoritative dispatcher, after rateLimiter.allow(clientId)
\* answered `allowed`.
authMessage(reg, cn, cap, allowed, c, f) ==
    IF ~allowed
    THEN Outcome(reg, cn, <<Send(c, ErrorEnv("RATE_LIMITED"))>>, "rate_limited")
    ELSE IF decodeMessage(f) = Null
    THEN Outcome(reg, cn, <<Send(c, ErrorEnv("INVALID_MESSAGE"))>>, "invalid")
    ELSE authDispatch(reg, cn, cap, c, cn[c].roomId, decodeMessage(f))

\* ------------------------------------------------------------ dispatcher (relay)
\* Variant of websocket.message (relay): the return after the pong is missing.
relayMessageFallThrough(reg, cn, allowed, c, f) ==
    LET decoded == decodeMessage(f)
        roomId == cn[c].roomId
        pong == IF decoded.type = "ping" /\ decoded.nonce.typeof = "string"
                THEN <<Send(c, [type |-> "pong", nonce |-> decoded.nonce])>>
                ELSE <<>>
    IN IF ~allowed
       THEN Outcome(reg, cn, <<Send(c, ErrorEnv("RATE_LIMITED"))>>, "rate_limited")
       ELSE IF decoded = Null
       THEN Outcome(reg, cn, <<Send(c, ErrorEnv("INVALID_MESSAGE"))>>, "invalid")
       ELSE IF roomId \in DOMAIN reg
       THEN Outcome(reg, cn, pong \o relay(reg[roomId], c, decoded), IF pong = <<>> THEN "relay" ELSE "pong")
       ELSE Outcome(reg, cn, pong, "relay_no_room")

\* Variant of websocket.message (relay): the room is looked up under the default
\* room id instead of ws.data.roomId.
relayMessageLobby(reg, cn, allowed, c, f) ==
    LET decoded == decodeMessage(f)
    IN IF ~allowed
       THEN Outcome(reg, cn, <<Send(c, ErrorEnv("RATE_LIMITED"))>>, "rate_limited")
       ELSE IF decoded = Null
       THEN Outcome(reg, cn, <<Send(c, ErrorEnv("INVALID_MESSAGE"))>>, "invalid")
       ELSE IF decoded.type = "ping" /\ decoded.nonce.typeof = "string"
       THEN Outcome(reg, cn, <<Send(c, [type |-> "pong", nonce |-> decoded.nonce])>>, "pong")
       ELSE IF "lobby" \in DOMAIN reg
       THEN Outcome(reg, cn, relay(reg["lobby"], c, decoded), "relay")
       ELSE Outcome(reg, cn, <<>>, "relay_no_room")

\* websocket.message of the relay dispatcher, after rateLimiter.allow(clientId)
\* answered `allowed`.
relayMessage(reg, cn, allowed, c, f) ==
    LET decoded == decodeMessage(f)
        roomId == cn[c].roomId
    IN IF ~allowed
       THEN Outcome(reg, cn, <<Send(c, ErrorEnv("RATE_LIMITED"))>>, "rate_limited")
       ELSE IF decoded = Null
       THEN Outcome(reg, cn, <<Send(c, ErrorEnv("INVALID_MESSAGE"))>>, "invalid")
       ELSE IF decoded.type = "ping" /\ decoded.nonce.typeof = "string"
       THEN Outcome(reg, cn, <<Send(c, [type |-> "pong", nonce |-> decoded.nonce])>>, "pong")
       ELSE IF roomId \in DOMAIN reg
       THEN Outcome(reg, cn, relay(reg[roomId], c, decoded), "relay")
       ELSE Outcome(reg, cn, <<>>, "relay_no_room")

\* Variant of open(ws): the room is taken under the default id, not ws.data.roomId.
relayOpenLobby(reg0, cn, cap, c, roomId) ==
    LET reg == getOrCreateRoom(reg0, "lobby", cap)
        j == relayJoin(reg["lobby"], cn, c)
    IN Outcome([reg EXCEPT !["lobby"] = j.room],
               IF j.ok THEN j.conn ELSE ServerClose(j.conn, c, 1013),
               j.sent,
               IF j.ok THEN "join_ok" ELSE "join_full")

\* open(ws) of the relay dispatcher: join at once, close with 1013 when full.
relayOpen(reg0, cn, cap, c, roomId) ==
    LET reg == getOrCreateRoom(reg0, roomId, cap)
        j == relayJoin(reg[roomId], cn, c)
    IN Outcome([reg EXCEPT ![roomId] = j.room],
               IF j.ok THEN j.conn ELSE ServerClose(j.conn, c, 1013),
               j.sent,
               IF j.ok THEN "join_ok" ELSE "join_full")

CloseOutcome(reg, cn, out, path, orphaned) ==
    [rooms |-> reg, conn |-> cn, sent |-> out, path |-> path, orphaned |-> orphaned]

\* Variant of websocket.close: the `roomId !== 'lobby'` test is missing.
closeHandlerAnyRoom(reg, cn, build, c) ==
    LET roomId == cn[c].roomId
        cn0 == [cn EXCEPT ![c] = ClosedConn]
    IN IF roomId \in DOMAIN reg
       THEN LET l == IF build = "relay" THEN relayLeave(reg[roomId], cn0, c) ELSE leave(reg[roomId], cn0, c)
            IN IF playerCount(l.room) = 0
               THEN LET d == destroy(l.room, l.conn)
                    IN CloseOutcome(Drop(reg, roomId), d.conn, l.sent, "destroyed", d.room.timers)
               ELSE CloseOutcome([reg EXCEPT ![roomId] = l.room], l.conn, l.sent, "left", 0)
       ELSE CloseOutcome(reg, cn0, <<>>, "no_room", 0)

\* Variant of websocket.close: room.leave is not called.
closeHandlerNoLeave(reg, cn, build, c) ==
    CloseOutcome(reg, [cn EXCEPT ![c] = ClosedConn], <<>>,
                 IF cn[c].roomId \in DOMAIN reg THEN "left" ELSE "no_room", 0)

\* Variant of websocket.close: the `room.playerCount === 0` test is missing.
closeHandlerNoCount(reg, cn, build, c) ==
    LET roomId == cn[c].roomId
        cn0 == [cn EXCEPT ![c] = ClosedConn]
    IN IF roomId \in DOMAIN reg
       THEN LET l == IF build = "relay" THEN relayLeave(reg[roomId], cn0, c) ELSE leave(reg[roomId], cn0, c)
            IN IF roomId # "lobby"
               THEN LET d == destroy(l.room, l.conn)
                    IN CloseOutcome(Drop(reg, roomId), d.conn, l.sent, "destroyed", d.room.timers)
               ELSE CloseOutcome([reg EXCEPT ![roomId] = l.room], l.conn, l.sent, "left", 0)
       ELSE CloseOutcome(reg, cn0, <<>>, "no_room", 0)

\* Variant of websocket.close: the empty room is neither destroyed nor deleted.
closeHandlerKeepsRoom(reg, cn, build, c) ==
    LET roomId == cn[c].roomId
        cn0 == [cn EXCEPT ![c] = ClosedConn]
    IN IF roomId \in DOMAIN reg
       THEN LET l == IF build = "relay" THEN relayLeave(reg[roomId], cn0, c) ELSE leave(reg[roomId], cn0, c)
            IN CloseOutcome([reg EXCEPT ![roomId] = l.room], l.conn, l.sent, "left", 0)
       ELSE CloseOutcome(reg, cn0, <<>>, "no_room", 0)

\* websocket.close, the same text in both dispatchers; room.leave is the build's.
\* The timers of a Room object deleted from the registry are counted in `orphaned`.
closeHandler(reg, cn, build, c) ==
    LET roomId == cn[c].roomId
        cn0 == [cn EXCEPT ![c] = ClosedConn]
    IN IF roomId \in DOMAIN reg
       THEN LET l == IF build = "relay" THEN relayLeave(reg[roomId], cn0, c) ELSE leave(reg[roomId], cn0, c)
            IN IF playerCount(l.room) = 0 /\ roomId # "lobby"
               THEN LET d == destroy(l.room, l.conn)
                    IN CloseOutcome(Drop(reg, roomId), d.conn, l.sent, "destroyed", d.room.timers)
               ELSE CloseOutcome([reg EXCEPT ![roomId] = l.room], l.conn, l.sent, "left", 0)
       ELSE CloseOutcome(reg, cn0, <<>>, "no_room", 0)

\* ------------------------------------------------------------ events
Event(op, c, r, frame, path) == [op |-> op, c |-> c, r |-> r, frame |-> frame, path |-> path]

Init ==
    /\ mode \in {"authoritative", "relay"}
    /\ capacity \in Capacities
    /\ conn = [c \in Clients |-> IdleConn]
    /\ nextId = 1
    /\ rooms = <<>>
    /\ orphans = 0
    /\ limiter = NewLimiter(MAX_MESSAGES_PER_SECOND)
    /\ latest = [c \in Clients |-> DefaultState]
    /\ rejected = {}
    /\ sent = <<>>
    /\ last = Event("init", None, "lobby", Garbage, "init")

\* fetch: the upgrade of /ws/:roomId, then open(ws), which waits for "join".
ConnectAuth(r) ==
    /\ mode = "authoritative"
    /\ nextId <= MaxClients
    /\ conn' = [conn EXCEPT ![nextId] = [IdleConn EXCEPT !.status = "open", !.roomId = r]]
    /\ nextId' = nextId + 1
    /\ sent' = <<>>
    /\ last' = Event("connect", nextId, r, Garbage, "open")
    /\ UNCHANGED <<mode, capacity, rooms, orphans, limiter, latest, rejected>>

\* One inbound frame of an open connection (authoritative build).
MessageAuth(c, f) ==
    /\ mode = "authoritative"
    /\ conn[c].status = "open"
    /\ ~BacksOff(limiter, c)
    /\ LET al == Allow(limiter, c)
           h == authMessage(rooms, conn, capacity, al.ok, c, f)
       IN /\ limiter' = al.lim
          /\ rooms' = h.rooms
          /\ conn' = h.conn
          /\ sent' = h.sent
          /\ last' = Event("message", c, conn[c].roomId, f, h.path)
          /\ latest' = IF h.path = "state"
                       THEN [latest EXCEPT ![c] = Stamped(f.msg.payload)]
                       ELSE latest
          /\ rejected' = IF h.path = "join_full" THEN rejected \cup {c} ELSE rejected
    /\ UNCHANGED <<mode, capacity, nextId, orphans>>

\* The close event of a connection (the client left, or a server close completed).
Close(c) ==
    /\ conn[c].status \in {"open", "closing"}
    /\ LET h == closeHandler(rooms, conn, mode, c)
       IN /\ limiter' = LimiterRemove(limiter, c)
          /\ rooms' = h.rooms
          /\ conn' = h.conn
          /\ sent' = h.sent
          /\ orphans' = orphans + h.orphaned
          /\ last' = Event("close", c, conn[c].roomId, Garbage, h.path)
          /\ latest' = [latest EXCEPT ![c] = DefaultState]
          /\ rejected' = rejected \ {c}
    /\ UNCHANGED <<mode, capacity, nextId>>

CloseAuth(c) == mode = "authoritative" /\ Close(c)

CloseRelay(c) == mode = "relay" /\ Close(c)

\* fetch: the upgrade of /ws/:roomId, then open(ws) of the relay dispatcher.
ConnectRelay(r) ==
    /\ mode = "relay"
    /\ nextId <= MaxClients
    /\ LET c == nextId
           cn0 == [conn EXCEPT ![c] = [IdleConn EXCEPT !.status = "open", !.roomId = r]]
           h == relayOpen(rooms, cn0, capacity, c, r)
       IN /\ rooms' = h.rooms
          /\ conn' = h.conn
          /\ sent' = h.sent
          /\ last' = Event("connect", c, r, Garbage, h.path)
    /\ nextId' = nextId + 1
    /\ UNCHANGED <<mode, capacity, orphans, limiter, latest, rejected>>

\* One inbound frame of an open connection (relay build).
MessageRelay(c, f) ==
    /\ mode = "relay"
    /\ conn[c].status = "open"
    /\ ~BacksOff(limiter, c)
    /\ LET al == Allow(limiter, c)
           h == relayMessage(rooms, conn, al.ok, c, f)
       IN /\ limiter' = al.lim
          /\ rooms' = h.rooms
          /\ conn' = h.conn
          /\ sent' = h.sent
          /\ last' = Event("message", c, conn[c].roomId, f, h.path)
    /\ UNCHANGED <<mode, capacity, nextId, orphans, latest, rejected>>

\* The owners of live timers: rooms of the registry, and "" for a Room object that
\* was deleted from the registry (destroy() left it without players).
TimerOwners == {r \in DOMAIN rooms : rooms[r].timers > 0} \cup (IF orphans > 0 THEN {""} ELSE {})

\* One fire of a Room object's setInterval callback.
Tick(r) ==
    LET room == IF r = "" THEN NewRoom("", capacity) ELSE rooms[r]
    IN /\ sent' = tick(room, conn)
       /\ last' = Event("tick", None, r, Garbage, IF Len(room.players) = 0 THEN "tick_empty" ELSE "snapshot")
       /\ UNCHANGED <<mode, capacity, conn, nextId, rooms, orphans, limiter, latest, rejected>>

\* setInterval(() => rateLimiter.cleanup(), 10_000): a quiet sweep period passes and
\* the sweep fires, so every window is older than the purge threshold.
Sweep ==
    /\ mode # "limiter"
    /\ limiter.windows # <<>>
    /\ limiter' = LimiterCleanup(LimiterAge(limiter, CLEANUP_INTERVAL_MS))
    /\ sent' = <<>>
    /\ last' = Event("sweep", None, "lobby", Garbage, "sweep")
    /\ UNCHANGED <<mode, capacity, conn, nextId, rooms, orphans, latest, rejected>>

Next ==
    \/ \E r \in RoomIds : ConnectAuth(r)
    \/ \E c \in Clients : \E f \in AuthFrames(c) : MessageAuth(c, f)
    \/ \E c \in Clients : CloseAuth(c)
    \/ \E r \in RoomIds : ConnectRelay(r)
    \/ \E c \in Clients, f \in RelayFrames : MessageRelay(c, f)
    \/ \E c \in Clients : CloseRelay(c)
    \/ \E r \in TimerOwners : Tick(r)
    \/ Sweep

Spec == Init /\ [][Next]_vars

\* ------------------------------------------------------------ the limiter alone
\* The RateLimiter driven directly, with the clock moving in half windows.
Delays == {WINDOW_MS \div 2}

InitRL ==
    /\ mode = "limiter"
    /\ capacity = MAX_PLAYERS_PER_ROOM
    /\ conn = [c \in Clients |-> IdleConn]
    /\ nextId = 1
    /\ rooms = <<>>
    /\ orphans = 0
    /\ \E n \in 1 .. MaxCeiling : limiter = NewLimiter(n)
    /\ latest = [c \in Clients |-> DefaultState]
    /\ rejected = {}
    /\ sent = <<>>
    /\ last = Event("init", None, "lobby", Garbage, "init")

RLAllow(c) ==
    /\ ExcessOK(limiter, c)
    /\ limiter' = Allow(limiter, c).lim
    /\ last' = Event("allow", c, "lobby", Garbage, IF Allow(limiter, c).ok THEN "allowed" ELSE "refused")
    /\ UNCHANGED <<mode, capacity, conn, nextId, rooms, orphans, sent, latest, rejected>>

RLRemove(c) ==
    /\ c \in DOMAIN limiter.windows
    /\ limiter' = LimiterRemove(limiter, c)
    /\ last' = Event("remove", c, "lobby", Garbage, "remove")
    /\ UNCHANGED <<mode, capacity, conn, nextId, rooms, orphans, sent, latest, rejected>>

RLCleanup ==
    /\ limiter' = LimiterCleanup(limiter)
    /\ limiter' # limiter
    /\ last' = Event("cleanup", None, "lobby", Garbage, "cleanup")
    /\ UNCHANGED <<mode, capacity, conn, nextId, rooms, orphans, sent, latest, rejected>>

RLAdvance(d) ==
    /\ limiter' = LimiterAge(limiter, d)
    /\ limiter' # limiter
    /\ last' = Event("advance", None, "lobby", Garbage, "advance")
    /\ UNCHANGED <<mode, capacity, conn, nextId, rooms, orphans, sent, latest, rejected>>

NextRL ==
    \/ \E c \in Clients : RLAllow(c)
    \/ \E c \in Clients : RLRemove(c)
    \/ RLCleanup
    \/ \E d \in Delays : RLAdvance(d)

SpecRL == InitRL /\ [][NextRL]_vars
\* ------------------------------------------------------------ properties
\* The connections an output addresses, and the envelopes of one type in it.
Addressees(out) == {out[i].to : i \in 1 .. Len(out)}

OfType(out, type) == {i \in 1 .. Len(out) : out[i].env.type = type}

Members(reg, r) == IF r \in DOMAIN reg THEN PlayerIds(reg[r]) ELSE {}

\* A join attempt: a "join" frame of a connection not yet joined (authoritative), or
\* the open of a connection (relay), that got past the rate limiter.
JoinAttempt(ev) == ev.path \in {"join_ok", "join_full"}

\* C1: in every reachable state no room has more members than the configured
\* capacity; a join attempted on a room that already holds `capacity` members is
\* refused (join returns false: the joined flag stays false, the relay build closes
\* the socket), sends one ROOM_FULL error to the joining connection only and leaves
\* every room, so every membership, as it was; a join is accepted only below capacity.
C1_CapacityNeverExceeded ==
    /\ [](\A r \in DOMAIN rooms : playerCount(rooms[r]) <= capacity /\ rooms[r].maxPlayers = capacity)
    /\ [][ JoinAttempt(last') =>
             LET c == last'.c
                 r == last'.r
                 atCapacity == r \in DOMAIN rooms /\ playerCount(rooms[r]) >= capacity
             IN /\ (last'.path = "join_full") <=> atCapacity
                /\ atCapacity =>
                     /\ sent' = <<Send(c, ErrorEnv("ROOM_FULL"))>>
                     /\ rooms' = rooms
                     /\ c \notin PlayerIds(rooms'[r])
                     /\ ~conn'[c].joined
                     /\ (mode = "relay" => conn'[c].status = "closing" /\ conn'[c].closeCode = 1013)
                     /\ (mode = "authoritative" => conn' = conn)
                /\ ~atCapacity => c \in PlayerIds(rooms'[r])
         ]_vars

\* C1 witness: a join was just refused by a room that holds exactly `capacity` members.
C1_Witness ==
    /\ last.path = "join_full"
    /\ last.r \in DOMAIN rooms
    /\ playerCount(rooms[last.r]) = capacity
    /\ sent = <<Send(last.c, ErrorEnv("ROOM_FULL"))>>

\* A `state` or `chat` frame of a connection that has not completed a join.
UnjoinedFrame(ev, cn) ==
    /\ ev.op = "message"
    /\ ev.frame.wf
    /\ ev.frame.msg.type \in {"state", "chat"}
    /\ ~cn[ev.c].joined

\* C2: in authoritative mode a `state` frame of a connection that has not completed
\* a join is answered with one NOT_JOINED error to that connection only, and a `chat`
\* frame of such a connection is dropped with nothing sent (a frame the rate limiter
\* refuses is answered RATE_LIMITED instead); in every case nothing is accepted: no
\* room's members or stored states change, a room registered by the lookup is empty,
\* the session is unchanged and no broadcast is made.
C2_UnjoinedNeverAccepted ==
    [][ (mode = "authoritative" /\ UnjoinedFrame(last', conn)) =>
          LET c == last'.c
              type == last'.frame.msg.type
          IN /\ last'.path \in {"not_joined", "chat_dropped", "rate_limited"}
             /\ (last'.path # "rate_limited" /\ type = "state") =>
                    /\ last'.path = "not_joined"
                    /\ sent' = <<Send(c, ErrorEnv("NOT_JOINED"))>>
             /\ (last'.path # "rate_limited" /\ type = "chat") =>
                    /\ last'.path = "chat_dropped"
                    /\ sent' = <<>>
             /\ Addressees(sent') \subseteq {c}
             /\ \A r \in DOMAIN rooms : r \in DOMAIN rooms' /\ rooms'[r] = rooms[r]
             /\ \A r \in DOMAIN rooms' \ DOMAIN rooms : rooms'[r] = NewRoom(r, capacity)
             /\ conn' = conn
             /\ latest' = latest
      ]_vars

\* C2 witness: an unjoined connection's `state` frame was just answered NOT_JOINED
\* while another connection is a member of the same room.
C2_Witness ==
    /\ mode = "authoritative"
    /\ last.path = "not_joined"
    /\ ~conn[last.c].joined
    /\ sent = <<Send(last.c, ErrorEnv("NOT_JOINED"))>>
    /\ Members(rooms, last.r) # {}

\* C3: in authoritative mode, after every event, a registered room's snapshot timer
\* is running exactly when the room has at least one member; over any step the timer
\* goes from stopped to running exactly when the membership goes from 0 to 1 or more,
\* and from running to stopped exactly when it returns to 0.
C3_TimerIffMembers ==
    /\ [](mode = "authoritative" =>
            \A r \in DOMAIN rooms : isRunning(rooms[r]) <=> playerCount(rooms[r]) >= 1)
    /\ [][ mode = "authoritative" =>
             \A r \in RoomIds :
                LET before == IF r \in DOMAIN rooms THEN rooms[r] ELSE NewRoom(r, capacity)
                    after == IF r \in DOMAIN rooms' THEN rooms'[r] ELSE NewRoom(r, capacity)
                IN /\ (~isRunning(before) /\ isRunning(after))
                        <=> (playerCount(before) = 0 /\ playerCount(after) = 1)
                   /\ (isRunning(before) /\ ~isRunning(after))
                        <=> (playerCount(before) >= 1 /\ playerCount(after) = 0)
         ]_vars

\* C3 witness: the lobby has been left by its last member and its timer is stopped.
C3_Witness ==
    /\ mode = "authoritative"
    /\ last.op = "close"
    /\ last.path = "left"
    /\ last.r = "lobby"
    /\ playerCount(rooms["lobby"]) = 0
    /\ ~isRunning(rooms["lobby"])

\* C4: every Room object of the registry has at most one live timer, the one its
\* tickInterval remembers, and no Room object deleted from the registry has a live
\* timer; a step never adds a timer to a room that has one.
C4_AtMostOneTimer ==
    /\ [](/\ orphans = 0
          /\ \A r \in DOMAIN rooms :
                /\ rooms[r].timers \in {0, 1}
                /\ rooms[r].timers = 1 <=> rooms[r].tickInterval)
    /\ [][ \A r \in DOMAIN rooms \cap DOMAIN rooms' :
              rooms[r].timers >= 1 => rooms'[r].timers <= rooms[r].timers ]_vars

\* C4 witness: the last member of a room other than the lobby has closed; the Room
\* object was destroyed and deleted from the registry, and left no timer behind.
C4_Witness ==
    /\ mode = "authoritative"
    /\ last.op = "close"
    /\ last.path = "destroyed"
    /\ last.r \notin DOMAIN rooms
    /\ orphans = 0

\* C5: every snapshot envelope sent is sent by a timer fire of a registered room
\* that has at least one member and lists at least one player; no timer fires for
\* a room without members (the last leave stopped it), and the tick of a room
\* without members sends nothing.
C5_NoSnapshotForEmptyRoom ==
    /\ OfType(sent, "snapshot") # {} =>
          /\ last.op = "tick"
          /\ last.r \in DOMAIN rooms
          /\ playerCount(rooms[last.r]) >= 1
          /\ \A i \in OfType(sent, "snapshot") : DOMAIN sent[i].env.players # {}
    /\ last.op = "tick" => last.path = "snapshot" /\ Members(rooms, last.r) # {}
    /\ \A r \in DOMAIN rooms : playerCount(rooms[r]) = 0 => tick(rooms[r], conn) = <<>>

\* C5 witness: a timer fire of a room with two members has sent a snapshot.
C5_Witness ==
    /\ mode = "authoritative"
    /\ last.op = "tick"
    /\ OfType(sent, "snapshot") # {}
    /\ playerCount(rooms[last.r]) = 2

\* The display name the dispatcher stores for a client's join frame.
ExpectedName(id) == IF NameOf(id).len = 0 THEN Anonymous ELSE Slice(NameOf(id), NAME_MAX)

\* The sessions that completed a join into room r.
JoinedSessions(r) == {c \in Clients : conn[c].status = "open" /\ conn[c].joined /\ conn[c].roomId = r}

\* C6: in authoritative mode the snapshot a timer fire builds for a room with
\* members has as keys exactly the ids of the sessions joined to the room, and each
\* entry is that member's most recently accepted `state` payload (server-stamped), or
\* the default state when it has sent none, with its display name; a timer fire
\* sends nothing but that snapshot.
C6_SnapshotContent ==
    mode = "authoritative" =>
        /\ \A r \in DOMAIN rooms :
              playerCount(rooms[r]) >= 1 =>
                 LET s == Snapshot(rooms[r])
                 IN /\ s.type = "snapshot"
                    /\ DOMAIN s.players = JoinedSessions(r)
                    /\ \A id \in DOMAIN s.players :
                          /\ s.players[id].state = latest[id]
                          /\ s.players[id].displayName = ExpectedName(id)
        /\ last.op = "tick" =>
              \A i \in 1 .. Len(sent) : sent[i].env = Snapshot(rooms[last.r])

\* C6 witness: a snapshot was sent for a room of two members, one that has reported
\* a state and one still at the default state.
C6_Witness ==
    /\ mode = "authoritative"
    /\ last.op = "tick"
    /\ sent # <<>>
    /\ \E a, b \in PlayerIds(rooms[last.r]) :
          /\ sent[1].env.players[a].state.stamped
          /\ sent[1].env.players[a].state.action = "run"
          /\ sent[1].env.players[b].state = DefaultState

\* C7 (as stated): in authoritative mode the snapshot of a timer fire is delivered
\* to every current member of the room.
C7_EveryMemberReceivesSnapshot ==
    (mode = "authoritative" /\ last.op = "tick" /\ last.path = "snapshot") =>
        \A id \in PlayerIds(rooms[last.r]) :
            \E i \in 1 .. Len(sent) : sent[i].to = id /\ sent[i].env = Snapshot(rooms[last.r])

\* C8: in both modes, a frame for which allow(clientId) answers false is answered
\* with one RATE_LIMITED error to the sender only and has no other effect (whatever
\* the frame holds: it is not decoded, not relayed, not applied; rooms, sessions,
\* stored states and sockets are unchanged); no other frame is answered RATE_LIMITED.
C8_RateLimitFirst ==
    [][ last'.op = "message" =>
          LET c == last'.c
              refused == ~Allow(limiter, c).ok
          IN /\ (last'.path = "rate_limited") <=> refused
             /\ refused =>
                   /\ sent' = <<Send(c, ErrorEnv("RATE_LIMITED"))>>
                   /\ rooms' = rooms
                   /\ conn' = conn
                   /\ latest' = latest
                   /\ orphans' = orphans
             /\ ~refused => \A i \in OfType(sent', "error") : sent'[i].env.code # "RATE_LIMITED"
      ]_vars

\* C8 witness: a well-formed frame of a member with a peer in its room was refused.
C8_Witness ==
    /\ last.op = "message"
    /\ last.path = "rate_limited"
    /\ last.frame.wf
    /\ Members(rooms, last.r) \ {last.c} # {}
    /\ last.c \in Members(rooms, last.r)
    /\ conn[last.c].status = "open"

C10_RelayToOthersOnly ==
    (/\ mode = "relay"
     /\ last.op = "message"
     /\ last.frame.wf
     /\ last.frame.msg.type # "ping"
     /\ last.path # "rate_limited")
    => LET X == last.c
           others == Members(rooms, last.r) \ {X}
       IN /\ last.path = "relay"
          /\ X \in Members(rooms, last.r)
          /\ Addressees(sent) = others
          /\ Len(sent) = Cardinality(others)
          /\ \A i \in 1 .. Len(sent) :
                sent[i].env = [type |-> "relay", from |-> X, data |-> decodeMessage(last.frame)]

\* C10 witness: a member's position frame was relayed to its one peer.
C10_Witness ==
    /\ mode = "relay"
    /\ last.path = "relay"
    /\ last.frame.msg.type = "position"
    /\ Len(sent) = 1
    /\ sent[1].to # last.c
    /\ sent[1].to \in Members(rooms, last.r)
    /\ sent[1].env.from = last.c

\* C11: in relay mode, a connection accepted into room R at open receives exactly
\* one `welcome`, carrying its own id and as peers exactly the clients that were
\* members of R just before (none for the first member, never itself), and each
\* of those members receives exactly one `peer_joined` for it; nothing else is sent.
C11_WelcomeListsPriorMembers ==
    [][ (mode = "relay" /\ last'.op = "connect" /\ last'.path = "join_ok") =>
          LET c == last'.c
              r == last'.r
              prior == Members(rooms, r)
              welcomes == OfType(sent', "welcome")
              notices == OfType(sent', "peer_joined")
          IN /\ c \notin prior
             /\ Members(rooms', r) = prior \cup {c}
             /\ Cardinality(welcomes) = 1
             /\ \A i \in welcomes :
                   /\ sent'[i].to = c
                   /\ sent'[i].env.playerId = c
                   /\ {sent'[i].env.peers[k] : k \in 1 .. Len(sent'[i].env.peers)} = prior
                   /\ Len(sent'[i].env.peers) = Cardinality(prior)
             /\ \A i \in notices : sent'[i].to \in prior /\ sent'[i].env.peerId = c
             /\ \A q \in prior : Cardinality({i \in notices : sent'[i].to = q}) = 1
             /\ Len(sent') = 1 + Cardinality(prior)
      ]_vars

\* C11 witness: the second client was accepted into a room the first is in: its
\* welcome lists the first, and the first got the peer_joined.
C11_Witness ==
    /\ mode = "relay"
    /\ last.op = "connect"
    /\ last.path = "join_ok"
    /\ last.c = 2
    /\ sent = << Send(2, [type |-> "welcome", playerId |-> 2, peers |-> <<1>>]),
                 Send(1, [type |-> "peer_joined", peerId |-> 2]) >>

\* The error codes of the protocol.
ErrorCodes == {"ROOM_FULL", "RATE_LIMITED", "INVALID_MESSAGE", "NOT_JOINED"}

\* C12 (as stated): in both modes, after any of the four errors is reported, the
\* offending connection is still open, and the error went to that connection only.
C12_ErrorsNeverTerminate ==
    \A i \in OfType(sent, "error") :
        /\ sent[i].env.code \in ErrorCodes
        /\ sent[i].to = last.c
        /\ conn[last.c].status = "open"

\* C12 (amended): an error envelope is one of the four codes, is the only envelope
\* of its event and goes to the offending connection only; that connection stays
\* open, except that the relay build closes, with code 1013, a connection whose join
\* at open was refused with ROOM_FULL.
C12_ErrorsToOffenderOnly ==
    \A i \in OfType(sent, "error") :
        /\ sent[i].env.code \in ErrorCodes
        /\ sent[i].to = last.c
        /\ Len(sent) = 1
        /\ IF mode = "relay" /\ last.op = "connect"
           THEN /\ sent[i].env.code = "ROOM_FULL"
                /\ conn[last.c].status = "closing"
                /\ conn[last.c].closeCode = 1013
           ELSE conn[last.c].status = "open"

\* C12 witness: in authoritative mode a join was refused with ROOM_FULL and the
\* refused connection is open, not joined.
C12_Witness ==
    /\ mode = "authoritative"
    /\ sent = <<Send(last.c, ErrorEnv("ROOM_FULL"))>>
    /\ conn[last.c].status = "open"
    /\ ~conn[last.c].joined

\* An admitted, decoded `ping` frame of the relay build.
AdmittedPing(ev) ==
    /\ mode = "relay"
    /\ ev.op = "message"
    /\ ev.frame.wf
    /\ ev.frame.msg.type = "ping"
    /\ ev.path # "rate_limited"

\* C13 (as stated): in relay mode every admitted `ping` is answered with one pong
\* to the sender echoing the nonce and nothing is sent to anyone else, whatever its
\* other fields are.
C13_EveryPingAnswered ==
    AdmittedPing(last) =>
        sent = <<Send(last.c, [type |-> "pong", nonce |-> last.frame.msg.nonce])>>

\* C13 (amended): in relay mode every admitted `ping` whose nonce is a string is
\* answered with one pong to the sender echoing the nonce, and nothing is sent to
\* anyone else.
C13_StringPingAnswered ==
    (AdmittedPing(last) /\ last.frame.msg.nonce.typeof = "string") =>
        /\ last.path = "pong"
        /\ sent = <<Send(last.c, [type |-> "pong", nonce |-> last.frame.msg.nonce])>>

\* C13 witness: a member with a peer in its room got a pong for its ping.
C13_Witness ==
    /\ mode = "relay"
    /\ last.path = "pong"
    /\ Members(rooms, last.r) \ {last.c} # {}
    /\ Addressees(sent) = {last.c}

\* C14 (as stated): Room.leave for a client that is not a member changes nothing
\* and sends nothing, and a second leave changes nothing more; for a member it
\* removes exactly that client and sends player_left for it to every remaining
\* member and not to the leaver.
C14_LeaveNotifiesRemaining ==
    [][ (mode = "authoritative" /\ last'.op = "close" /\ last'.r \in DOMAIN rooms) =>
          LET c == last'.c
              room == rooms[last'.r]
              l == leave(room, [conn EXCEPT ![c] = ClosedConn], c)
              again == leave(l.room, l.conn, c)
          IN /\ again.room = l.room /\ again.conn = l.conn /\ again.sent = <<>>
             /\ ~hasPlayer(room, c) => l.room = room /\ sent' = <<>>
             /\ hasPlayer(room, c) =>
                   /\ PlayerIds(l.room) = PlayerIds(room) \ {c}
                   /\ Addressees(sent') = PlayerIds(room) \ {c}
                   /\ \A i \in 1 .. Len(sent') : sent'[i].env = [type |-> "player_left", id |-> c]
      ]_vars

\* C15: whenever a close event has been processed for a connection bound to a room
\* other than "lobby", that room is either gone from the registry (destroyed, no
\* timer left behind) or still has a member; and "lobby", once registered, stays
\* registered over every step, also with zero members.
C15_LobbyKeptOthersDestroyed ==
    /\ [](last.op = "close" /\ last.r # "lobby" =>
            /\ orphans = 0
            /\ last.r \in DOMAIN rooms => playerCount(rooms[last.r]) >= 1)
    /\ [][ /\ "lobby" \in DOMAIN rooms => "lobby" \in DOMAIN rooms'
           /\ \A r \in DOMAIN rooms \ DOMAIN rooms' :
                 /\ last'.op = "close"
                 /\ last'.r = r
                 /\ last'.path = "destroyed"
                 /\ PlayerIds(rooms[r]) \subseteq {last'.c}
      ]_vars

\* C15 witness: the lobby is registered with no member, right after the close of
\* the last connection that was in it.
C15_Witness ==
    /\ last.op = "close"
    /\ last.r = "lobby"
    /\ "lobby" \in DOMAIN rooms
    /\ playerCount(rooms["lobby"]) = 0
    /\ \A c \in Clients : conn[c].status # "open"

\* C16: a connection whose close event has been processed is a member of no room,
\* is subscribed to no topic, has no rate-limit window, and no envelope of the close
\* event or of any later event is addressed to it.
C16_ClosedConnectionGone ==
    \A c \in Clients :
        conn[c].status = "closed" =>
            /\ \A r \in DOMAIN rooms : ~hasPlayer(rooms[r], c)
            /\ c \notin DOMAIN limiter.windows
            /\ conn[c].topics = {}
            /\ c \notin Addressees(sent)

\* C16 witness: a member has closed and its former peer, still in the room, was
\* sent something by a later event.
C16_Witness ==
    /\ conn[1].status = "closed"
    /\ last.op # "close"
    /\ sent # <<>>
    /\ conn[2].status = "open"
    /\ hasPlayer(rooms[conn[2].roomId], 2)

\* C17: in authoritative mode an admitted `join` frame of a connection that has
\* already joined is ignored: every room (members, stored display names and states,
\* timer) and every session is as before, and nothing is sent.
C17_RejoinIgnored ==
    [][ (/\ mode = "authoritative"
         /\ last'.op = "message"
         /\ last'.frame.wf
         /\ last'.frame.msg.type = "join"
         /\ conn[last'.c].joined
         /\ last'.path # "rate_limited")
        => /\ last'.path = "join_ignored"
           /\ rooms' = rooms
           /\ conn' = conn
           /\ latest' = latest
           /\ sent' = <<>>
      ]_vars

\* C17 witness: a member that has reported a state, with a peer in its room, sent
\* `join` again and it was ignored.
C17_Witness ==
    /\ mode = "authoritative"
    /\ last.path = "join_ignored"
    /\ playerCount(rooms[last.r]) = 2
    /\ GetPlayer(rooms[last.r], last.c).state.stamped
    /\ sent = <<>>

\* The stored state of client id in registry reg: a one-element set, or the empty
\* set when id is no member.
StoredState(reg, id) ==
    {GetPlayer(reg[r], id).state : r \in {x \in DOMAIN reg : hasPlayer(reg[x], id)}}

\* C18: in authoritative mode the stored state of a client that stays a member
\* changes only in the step of its own accepted `state` frame; that step overwrites
\* it with the frame's payload (server-stamped), leaves every other member's state,
\* every membership and every session unchanged, and sends nothing.
C18_StateOnlyByOwnUpdate ==
    [][ mode = "authoritative" =>
          /\ \A id \in Clients :
                (/\ StoredState(rooms, id) # {}
                 /\ StoredState(rooms', id) # {}
                 /\ StoredState(rooms', id) # StoredState(rooms, id))
                => /\ last'.op = "message"
                   /\ last'.c = id
                   /\ last'.path = "state"
          /\ last'.path = "state" =>
                LET c == last'.c
                IN /\ hasPlayer(rooms[last'.r], c)
                   /\ StoredState(rooms', c) = {Stamped(last'.frame.msg.payload)}
                   /\ \A id \in Clients \ {c} : StoredState(rooms', id) = StoredState(rooms, id)
                   /\ DOMAIN rooms' = DOMAIN rooms
                   /\ \A r \in DOMAIN rooms :
                         /\ [i \in 1 .. Len(rooms'[r].players) |-> rooms'[r].players[i].id]
                              = [i \in 1 .. Len(rooms[r].players) |-> rooms[r].players[i].id]
                         /\ rooms'[r].timers = rooms[r].timers
                   /\ conn' = conn
                   /\ sent' = <<>>
      ]_vars

\* C18 witness: the first client's second state report has overwritten its first
\* one, while its peer is still at the default state.
C18_Witness ==
    /\ mode = "authoritative"
    /\ last.path = "state"
    /\ last.c = 1
    /\ playerCount(rooms[last.r]) = 2
    /\ \E st \in StoredState(rooms, 1) : st.action = "idle" /\ st.stamped
    /\ StoredState(rooms, 2) = {DefaultState}
    /\ sent = <<>>

\* C19: in authoritative mode an accepted join appends the client to the room with
\* the default state and its display name, and sends exactly one player_joined
\* (its id and display name) to each client that was a member before and none to
\* the joiner.
C19_JoinAnnouncedToOthers ==
    [][ (mode = "authoritative" /\ last'.op = "message" /\ last'.path = "join_ok") =>
          LET c == last'.c
              r == last'.r
              prior == IF r \in DOMAIN rooms THEN rooms[r].players ELSE <<>>
              priorIds == {prior[i].id : i \in 1 .. Len(prior)}
              entry == [id |-> c, displayName |-> ExpectedName(c), state |-> DefaultState]
          IN /\ c \notin priorIds
             /\ rooms'[r].players = Append(prior, entry)
             /\ conn'[c].joined
             /\ Addressees(sent') = priorIds
             /\ Len(sent') = Cardinality(priorIds)
             /\ \A i \in 1 .. Len(sent') :
                   sent'[i].env = [type |-> "player_joined", id |-> c, displayName |-> ExpectedName(c)]
      ]_vars

\* C19 witness: the second client joined a room the first is in; the first, and
\* only the first, was sent the player_joined.
C19_Witness ==
    /\ mode = "authoritative"
    /\ last.path = "join_ok"
    /\ last.c = 2
    /\ PlayerIds(rooms[last.r]) = {1, 2}
    /\ sent = <<Send(1, [type |-> "player_joined", id |-> 2, displayName |-> ExpectedName(2)])>>

\* C20 (as stated): in authoritative mode a `chat` frame of a joined member yields
\* one chat envelope with the sender's id and the first 500 characters of the text,
\* delivered to every current member of the sender's room, none excluded, and to no
\* connection outside the room.
C20_ChatReachesEveryMember ==
    (mode = "authoritative" /\ last.op = "message" /\ last.path = "chat") =>
        /\ Addressees(sent) = Members(rooms, last.r)
        /\ Len(sent) = Cardinality(Members(rooms, last.r))
        /\ \A i \in 1 .. Len(sent) :
              sent[i].env = [type |-> "chat", id |-> last.c,
                             message |-> Slice(last.frame.msg.message, CHAT_MAX)]

\* C21: in both modes a frame that got past the rate limiter and fails to decode is
\* answered with exactly one INVALID_MESSAGE error envelope, addressed to its sender;
\* the registry (no room created or destroyed, no membership or stored state
\* changed), every connection (the sender and all others stay as they were, open
\* connections stay open) and the accepted states are left as they were, and nothing
\* else is sent.
C21_InvalidFrameHarmless ==
    [][ last'.op = "message" /\ decodeMessage(last'.frame) = Null /\ last'.path # "rate_limited" =>
          /\ last'.path = "invalid"
          /\ sent' = <<Send(last'.c, ErrorEnv("INVALID_MESSAGE"))>>
          /\ rooms' = rooms
          /\ conn' = conn
          /\ conn'[last'.c].status = "open"
          /\ latest' = latest
          /\ orphans' = orphans
      ]_vars

\* C21 witness: in authoritative mode an undecodable frame of a connection bound to
\* "r1" was answered with INVALID_MESSAGE while "r1" is not in the registry and
\* another connection is a member of a room.
C21_Witness ==
    /\ mode = "authoritative"
    /\ last.op = "message"
    /\ last.path = "invalid"
    /\ last.r = "r1"
    /\ "r1" \notin DOMAIN rooms
    /\ sent = <<Send(last.c, ErrorEnv("INVALID_MESSAGE"))>>
    /\ \E c \in Clients \ {last.c} : conn[c].joined /\ hasPlayer(rooms[conn[c].roomId], c)

\* C22: in authoritative mode a join rejected with ROOM_FULL changes no session and
\* no socket: the rejected connection stays open with its joined flag false. When a
\* connection that was rejected before, and has not joined since, sends `join`
\* again, past the rate limiter, while its room holds fewer members than the
\* capacity (a member has left), the join is accepted: the flag becomes true and
\* the client is a member of the room.
C22_RejectedJoinMayRetry ==
    [][ (mode = "authoritative" /\ last'.op = "message") =>
          LET c == last'.c
              r == last'.r
          IN /\ last'.path = "join_full" =>
                   /\ conn' = conn
                   /\ conn'[c].status = "open"
                   /\ ~conn'[c].joined
                   /\ ~hasPlayer(rooms'[r], c)
                   /\ c \in rejected'
             /\ ( /\ c \in rejected
                  /\ ~conn[c].joined
                  /\ decodeMessage(last'.frame) # Null
                  /\ decodeMessage(last'.frame).type = "join"
                  /\ last'.path # "rate_limited"
                  /\ Cardinality(Members(rooms, r)) < capacity )
                => /\ last'.path = "join_ok"
                   /\ conn'[c].status = "open"
                   /\ conn'[c].joined
                   /\ hasPlayer(rooms'[r], c)
      ]_vars

\* C22 witness: a connection whose join was rejected with ROOM_FULL by a room of
\* capacity 1 has sent `join` again after the member left, and is now the member.
C22_Witness ==
    /\ mode = "authoritative"
    /\ capacity = 1
    /\ last.op = "message"
    /\ last.path = "join_ok"
    /\ last.c \in rejected
    /\ conn[last.c].joined
    /\ PlayerIds(rooms[last.r]) = {last.c}
    /\ \E c \in Clients : conn[c].status = "closed"

\* The open connections whose session is bound to room r (ws.data.roomId).
BoundSessions(r) == {c \in Clients : conn[c].status = "open" /\ conn[c].roomId = r}

\* C23 (as stated): after every event, in both modes, every room of the registry
\* other than "lobby" has at least one member.
C23_NonDefaultRoomsNonEmpty ==
    \A r \in DOMAIN rooms \ {"lobby"} : playerCount(rooms[r]) >= 1

\* C23 (amended): after every event every room of the registry other than "lobby"
\* has at least one open connection bound to its identifier; in relay mode it has
\* at least one member; in authoritative mode it may have none, and then it has no
\* timer and no connection bound to it has its joined flag set.
C23_NonDefaultRoomsHaveSession ==
    \A r \in DOMAIN rooms \ {"lobby"} :
        /\ BoundSessions(r) # {}
        /\ mode = "relay" => playerCount(rooms[r]) >= 1
        /\ playerCount(rooms[r]) = 0 =>
              /\ ~isRunning(rooms[r])
              /\ \A c \in BoundSessions(r) : ~conn[c].joined

\* C23 witness: in authoritative mode "r1" is registered with no member, by a
\* `state` frame of a connection bound to it that has not joined.
C23_Witness ==
    /\ mode = "authoritative"
    /\ last.op = "message"
    /\ last.path = "not_joined"
    /\ last.r = "r1"
    /\ "r1" \in DOMAIN rooms
    /\ playerCount(rooms["r1"]) = 0
    /\ last.c \in BoundSessions("r1")

\* C24: in authoritative mode, in every reachable state and for every open
\* connection, the session's joined flag is true exactly when the registry holds a
\* room under the session's room identifier and the connection's client id is a
\* member of that room.
C24_JoinedIffMember ==
    mode = "authoritative" =>
        \A c \in Clients :
            conn[c].status = "open" =>
                (conn[c].joined <=>
                    /\ conn[c].roomId \in DOMAIN rooms
                    /\ hasPlayer(rooms[conn[c].roomId], c))

\* C24 witness: "r1" of capacity 1 was destroyed by the close of its member and
\* registered again by the `join` of a connection it had rejected, which is now
\* joined and its only member; the closed connection is in no room.
C24_Witness ==
    /\ mode = "authoritative"
    /\ capacity = 1
    /\ last.path = "join_ok"
    /\ last.r = "r1"
    /\ last.c \in rejected
    /\ \E c \in Clients \ {last.c} : conn[c].status = "closed" /\ ~conn[c].joined
    /\ conn[last.c].status = "open"
    /\ conn[last.c].joined
    /\ hasPlayer(rooms["r1"], last.c)

\* The rooms of the registry that have id among their players.
RoomsOf(reg, id) == {r \in DOMAIN reg : hasPlayer(reg[r], id)}

\* C25: in both modes and in every reachable state a client id is a member of at
\* most one room, and that room is registered under the room identifier of the
\* client's session; the identifier is the one given at connect and never changes
\* while the connection lives; an event adds at most its own connection to a room,
\* and only to the room of that connection's identifier.
C25_MemberOnlyOfBoundRoom ==
    /\ [](\A id \in Clients :
            /\ Cardinality(RoomsOf(rooms, id)) <= 1
            /\ \A r \in RoomsOf(rooms, id) : conn[id].status = "open" /\ conn[id].roomId = r)
    /\ [][ /\ last'.op = "connect" => conn'[last'.c].roomId = last'.r
           /\ \A c \in Clients :
                 (conn[c].status \in {"open", "closing"} /\ conn'[c].status \in {"open", "closing"})
                    => conn'[c].roomId = conn[c].roomId
           /\ \A id \in Clients :
                 \A r \in RoomsOf(rooms', id) \ RoomsOf(rooms, id) :
                    /\ last'.op \in {"connect", "message"}
                    /\ id = last'.c
                    /\ r = last'.r
                    /\ r = conn'[id].roomId
      ]_vars

\* C25 witness: in authoritative mode two connections bound to different rooms are
\* each a member of its own room only, after one of them sent an accepted `state`.
C25_Witness ==
    /\ mode = "authoritative"
    /\ last.op = "message"
    /\ last.path = "state"
    /\ conn[1].roomId # conn[2].roomId
    /\ RoomsOf(rooms, 1) = {conn[1].roomId}
    /\ RoomsOf(rooms, 2) = {conn[2].roomId}

\* C26: in both modes no connection is ever closed by the server with code 1001
\* ("Room destroyed"); a close event that destroys a room does so for a room other
\* than "lobby" whose only member, if any, was the closing connection (which leave
\* removed first), takes the room out of the registry and leaves every other
\* connection as it was.
C26_DestroyOnlyEmptyRoom ==
    /\ [](\A c \in Clients : conn[c].closeCode # 1001)
    /\ [][ last'.path = "destroyed" =>
             /\ last'.op = "close"
             /\ last'.r # "lobby"
             /\ last'.r \in DOMAIN rooms
             /\ last'.r \notin DOMAIN rooms'
             /\ PlayerIds(rooms[last'.r]) \subseteq {last'.c}
             /\ \A c \in Clients \ {last'.c} : conn'[c] = conn[c]
      ]_vars

\* C26 witness: the close of the only member of "r1" destroyed the room while
\* another connection bound to "r1", not a member, stays open.
C26_Witness ==
    /\ last.op = "close"
    /\ last.path = "destroyed"
    /\ last.r = "r1"
    /\ "r1" \notin DOMAIN rooms
    /\ \E c \in BoundSessions("r1") : conn[c].closeCode = 0 /\ ~conn[c].joined

====
